---- MODULE Spec2Model ----
(***************************************************************************)
(* Model of scripts/convert_yolo_model.py: the sequential pipeline of      *)
(* main() -- weights check, export_to_onnx, convert_to_tflite,             *)
(* validate_tflite, optional copy_to_android_assets -- over a small        *)
(* filesystem.  The wrapped libraries (ultralytics, tf2onnx, tensorflow,   *)
(* shutil) are opaque: each of their outcomes is a nondeterministic input  *)
(* of the action that calls them.                                          *)
(***************************************************************************)
EXTENDS Integers, Sequences, FiniteSets, TLC

\* ------------------------------------------------------------------ bounds
\* file contents are 1..MaxBlob
MaxBlob == 2
\* the conversion subprocess returns a code in 0..MaxReturnCode
MaxReturnCode == 1

Blobs == 1..MaxBlob
ReturnCodes == 0..MaxReturnCode

\* ------------------------------------------------------- values and paths
\* argparse's default for the optional --android-project
None == "None"
\* the values --android-project takes here: not given, "", "proj"
ProjectArgs == {None, "", "proj"}
\* texts the conversion tool leaves on its stderr
StderrTexts == {"tool: unsupported op", "tool: warning"}

\* a path is the tuple of its components (pathlib's parts); Path("") has none
PathOf(s) == IF s = "" THEN <<>> ELSE <<s>>

WeightsPath == <<"best.pt">>
OutputPath == <<"model.tflite">>
\* the paths model.export may return
OnnxPaths == {<<"best.onnx">>, <<"runs", "best.onnx">>}

\* copy_to_android_assets: assets_dir and target_path
AssetsDir(project) == PathOf(project) \o <<"app", "src", "main", "assets">>
TargetPath(project) == AssetsDir(project) \o <<"yolo_plate_detector.tflite">>
\* where shutil.copy puts the file when its destination is a directory
InsideTarget(project, src) == TargetPath(project) \o <<src[Len(src)]>>

\* Python truthiness of the parsed option (if args.android_project:)
Truthy(v) == v # None /\ v # ""

\* ------------------------------------------------------------- filesystem
Absent == [kind |-> "absent", blob |-> 0]
Dir == [kind |-> "dir", blob |-> 0]
File(b) == [kind |-> "file", blob |-> b]
Nodes == {Absent, Dir} \cup {File(b) : b \in Blobs}

ProjectRoots == {"", "proj"}
TreePaths == UNION {{AssetsDir(p), TargetPath(p), InsideTarget(p, OutputPath)} : p \in ProjectRoots}
FsPaths == {WeightsPath, OutputPath} \cup OnnxPaths \cup TreePaths

\* os.path.exists
Exists(f, path) == f[path].kind # "absent"

VARIABLES
    pc,             \* position in main()
    args,           \* the parsed command line
    fs,             \* the filesystem: path -> node
    fs0,            \* the filesystem as the run found it
    onnx_path,      \* main's local, <<>> until export_to_onnx returns
    calls,          \* the stage functions invoked so far, with their arguments
    proc,           \* what the conversion subprocess did, <<>> until launched
    results,        \* what each stage returned
    stdout,         \* the lines printed
    exit_status     \* <<>> while running, <<code>> once the process has exited

vars == <<pc, args, fs, fs0, onnx_path, calls, proc, results, stdout, exit_status>>

Msg(tag, text) == [tag |-> tag, text |-> text]

\* no subprocess launched yet
NoProc == [cmd |-> <<>>, raised |-> FALSE, returncode |-> 0, wrote |-> FALSE, stderr |-> ""]

NoResults == [export |-> "none", convert |-> "none", validate |-> "none", copy |-> "none"]

\* a project tree on disk: the assets directory, the target under it, and
\* what the target holds when it is itself a directory
TreeShapes ==
    {t \in [assets : {Absent, Dir}, target : Nodes, inside : Nodes \ {Dir}] :
        /\ t.assets = Absent => t.target = Absent
        /\ t.target # Dir => t.inside = Absent}

TreeNode(t, p, path) ==
    IF path = AssetsDir(p) THEN t.assets
    ELSE IF path = TargetPath(p) THEN t.target
    ELSE t.inside

\* the state after argparse: the command line and the disk as the run finds them
Init ==
    /\ pc = "check_weights"
    /\ \E project \in ProjectArgs :
           args = [weights |-> WeightsPath, output |-> OutputPath, android_project |-> project]
    /\ \E w \in {Absent, File(1)}, o \in Nodes \ {Dir}, t \in [ProjectRoots -> TreeShapes] :
           fs = [path \in FsPaths |->
                    IF path = WeightsPath THEN w
                    ELSE IF path = OutputPath THEN o
                    ELSE IF path \in OnnxPaths THEN Absent
                    ELSE LET p == CHOOSE r \in ProjectRoots :
                                     path \in {AssetsDir(r), TargetPath(r), InsideTarget(r, OutputPath)}
                         IN TreeNode(t[p], p, path)]
    /\ fs0 = fs
    /\ onnx_path = <<>>
    /\ calls = <<>>
    /\ proc = NoProc
    /\ results = NoResults
    /\ stdout = <<>>
    /\ exit_status = <<>>

\* sys.exit(code)
Exit(code) ==
    /\ pc' = "exited"
    /\ exit_status' = <<code>>

\* the existence test left out
WeightsFoundAlways(f, a) == TRUE

\* main: the weights file must exist before anything else runs
WeightsFound(f, a) == Exists(f, a.weights)

CheckWeights ==
    /\ pc = "check_weights"
    /\ IF WeightsFound(fs, args)
       THEN /\ pc' = "export"
            /\ stdout' = stdout \o <<Msg("banner", "")>>
            /\ UNCHANGED exit_status
       ELSE /\ stdout' = stdout \o <<Msg("weights_not_found", "")>>
            /\ Exit(1)
    /\ UNCHANGED <<args, fs, fs0, onnx_path, calls, proc, results>>

\* export_to_onnx: model.export either raises (the process exits 1) or returns
\* a path, at which it may or may not have left a file
ExportToOnnx ==
    /\ pc = "export"
    /\ calls' = Append(calls, [fn |-> "export_to_onnx", a |-> args.weights, b |-> <<>>])
    /\ \E raised \in BOOLEAN, returned \in OnnxPaths, written \in BOOLEAN :
          IF raised
          THEN /\ results' = [results EXCEPT !.export = "raised"]
               /\ stdout' = stdout \o <<Msg("step_1_of_3", ""), Msg("onnx_export_failed", "exception")>>
               /\ Exit(1)
               /\ UNCHANGED <<fs, onnx_path>>
          ELSE /\ results' = [results EXCEPT !.export = "returned"]
               /\ fs' = IF written THEN [fs EXCEPT ![returned] = File(1)] ELSE fs
               /\ onnx_path' = returned
               /\ stdout' = stdout \o <<Msg("step_1_of_3", ""), Msg("onnx_export_complete", "")>>
               /\ pc' = "convert"
               /\ UNCHANGED exit_status
    /\ UNCHANGED <<args, fs0, proc>>

\* a path rebuilt by the caller instead of the one the exporter returned
ConvertArgsDefaultOnnx(returned, a) == [onnx_path |-> <<"best.onnx">>, tflite_path |-> a.output]

\* main: the arguments of the convert_to_tflite call
ConvertArgs(returned, a) == [onnx_path |-> returned, tflite_path |-> a.output]

\* convert_to_tflite: the command line handed to subprocess.run
Cmd(onnx, tflite) ==
    <<<<"python">>, <<"-m">>, <<"tf2onnx.convert">>, <<"--opset">>, <<"13">>,
      <<"--tflite">>, tflite, <<"--input">>, onnx>>

\* the return code not tested: only the output file decides
ConvertReturnsIgnoringCode(raised, returncode, exists) ==
    IF raised THEN FALSE ELSE exists

\* the exception handler deciding by the output file instead of returning False
ConvertReturnsUncaught(raised, returncode, exists) ==
    IF returncode # 0 THEN FALSE ELSE exists

\* convert_to_tflite: the value returned, from whether subprocess.run raised,
\* the return code, and os.path.exists(tflite_path) after the run
ConvertReturns(raised, returncode, exists) ==
    IF raised THEN FALSE
    ELSE IF returncode # 0 THEN FALSE
    ELSE exists

\* the captured stderr never written
ConvertOutputWithoutStderr(raised, returncode, exists, stderr) ==
    <<Msg("step_2_of_3", "")>> \o
    (IF raised THEN <<Msg("tflite_conversion_failed", "exception")>>
     ELSE IF returncode # 0 THEN <<Msg("tflite_conversion_failed", "")>>
     ELSE IF exists THEN <<Msg("tflite_conversion_complete", "")>>
     ELSE <<Msg("tflite_file_not_created", "")>>)

\* convert_to_tflite: the lines it writes
ConvertOutput(raised, returncode, exists, stderr) ==
    <<Msg("step_2_of_3", "")>> \o
    (IF raised THEN <<Msg("tflite_conversion_failed", "exception")>>
     ELSE IF returncode # 0 THEN <<Msg("tflite_conversion_failed", ""), Msg("stderr", stderr)>>
     ELSE IF exists THEN <<Msg("tflite_conversion_complete", "")>>
     ELSE <<Msg("tflite_file_not_created", "")>>)

\* the result of validate_tflite ignored
AfterValidateAlwaysInstall(ok) == "install"

\* main: sys.exit(1) unless the stage returned True
AfterConvert(ok) == IF ok THEN "validate" ELSE "exit1"
AfterValidate(ok) == IF ok THEN "install" ELSE "exit1"

Goto(label) ==
    IF label = "exit1"
    THEN Exit(1)
    ELSE pc' = label /\ UNCHANGED exit_status

\* convert_to_tflite and main's test of its result.  The subprocess is opaque:
\* launching it may raise; once launched it returns any code, may or may not
\* write the output file, and leaves some text on stderr.
ConvertToTflite ==
    /\ pc = "convert"
    /\ LET in == ConvertArgs(onnx_path, args) IN
       /\ calls' = Append(calls, [fn |-> "convert_to_tflite", a |-> in.onnx_path, b |-> in.tflite_path])
       /\ \E raised \in BOOLEAN, returncode \in ReturnCodes, wrote \in BOOLEAN,
             blob \in Blobs, stderr \in StderrTexts :
             /\ raised => (returncode = 0 /\ ~wrote /\ stderr = CHOOSE t \in StderrTexts : TRUE)
             /\ ~wrote => blob = 1
             /\ proc' = [cmd |-> Cmd(in.onnx_path, in.tflite_path), raised |-> raised,
                         returncode |-> returncode, wrote |-> wrote, stderr |-> stderr]
             /\ fs' = IF wrote THEN [fs EXCEPT ![in.tflite_path] = File(blob)] ELSE fs
             /\ LET exists == Exists(fs', in.tflite_path)
                    ok == ConvertReturns(raised, returncode, exists)
                IN /\ results' = [results EXCEPT !.convert = IF ok THEN "true" ELSE "false"]
                   /\ stdout' = stdout \o ConvertOutput(raised, returncode, exists, stderr)
                   /\ Goto(AfterConvert(ok))
    /\ UNCHANGED <<args, fs0, onnx_path>>

\* validate_tflite and main's test of its result.  Importing tensorflow,
\* loading the file and allocating tensors may raise; a missing file always does.
ValidateTflite ==
    /\ pc = "validate"
    /\ calls' = Append(calls, [fn |-> "validate_tflite", a |-> args.output, b |-> <<>>])
    /\ \E loads \in BOOLEAN :
          LET ok == fs[args.output].kind = "file" /\ loads IN
          /\ results' = [results EXCEPT !.validate = IF ok THEN "true" ELSE "false"]
          /\ stdout' = stdout \o <<Msg("step_3_of_3", ""),
                                   IF ok THEN Msg("model_validated", "")
                                   ELSE Msg("model_validation_failed", "exception")>>
          /\ Goto(AfterValidate(ok))
    /\ UNCHANGED <<args, fs, fs0, onnx_path, proc>>

\* the copy made unconditional
ShouldInstallAlways(a) == TRUE

\* main: whether the optional copy runs
ShouldInstall(a) == Truthy(a.android_project)

\* copy_to_android_assets: Path(android_project_path) raises on None; then
\* mkdir(parents=True, exist_ok=True) and shutil.copy, either of which may
\* raise.  Every exception is caught and reported, and main ignores the
\* result.  shutil.copy into an existing directory puts the file inside it
\* under the source's name.
CopyToAndroidAssets ==
    /\ pc = "install"
    /\ ShouldInstall(args)
    /\ LET given == args.android_project # None
           project == IF given THEN args.android_project ELSE ""
           assets_dir == AssetsDir(project)
           target_path == TargetPath(project)
       IN /\ calls' = Append(calls, [fn |-> "copy_to_android_assets", a |-> args.output,
                                     b |-> <<args.android_project>>])
          /\ \E mkdir_ok \in BOOLEAN, copy_ok \in BOOLEAN :
                /\ ~mkdir_ok => ~copy_ok
                /\ LET made == IF given /\ mkdir_ok THEN [fs EXCEPT ![assets_dir] = Dir] ELSE fs
                       ok == given /\ mkdir_ok /\ copy_ok /\ fs[args.output].kind = "file"
                   IN /\ fs' = IF ~ok THEN made
                               ELSE IF made[target_path] = Dir
                               THEN [made EXCEPT ![InsideTarget(project, args.output)] = fs[args.output]]
                               ELSE [made EXCEPT ![target_path] = fs[args.output]]
                      /\ results' = [results EXCEPT !.copy = IF ok THEN "true" ELSE "false"]
                      /\ stdout' = stdout \o <<IF ok THEN Msg("copied_to_android_assets", "")
                                               ELSE Msg("failed_to_copy", "exception")>>
    /\ pc' = "finish"
    /\ UNCHANGED <<args, fs0, onnx_path, proc, exit_status>>

\* main: the copy is skipped when args.android_project is falsy
SkipCopy ==
    /\ pc = "install"
    /\ ~ShouldInstall(args)
    /\ pc' = "finish"
    /\ UNCHANGED <<args, fs, fs0, onnx_path, calls, proc, results, stdout, exit_status>>

\* a failed copy turned into a failed run
FinishFailingOnCopy ==
    /\ pc = "finish"
    /\ stdout' = stdout \o <<Msg("conversion_complete", ""), Msg("next_steps", "")>>
    /\ Exit(IF results.copy = "false" THEN 1 ELSE 0)
    /\ UNCHANGED <<args, fs, fs0, onnx_path, calls, proc, results>>

\* main: the closing lines; the interpreter then exits with status 0
Finish ==
    /\ pc = "finish"
    /\ stdout' = stdout \o <<Msg("conversion_complete", ""), Msg("next_steps", "")>>
    /\ Exit(0)
    /\ UNCHANGED <<args, fs, fs0, onnx_path, calls, proc, results>>

Next ==
    \/ CheckWeights
    \/ ExportToOnnx
    \/ ConvertToTflite
    \/ ValidateTflite
    \/ CopyToAndroidAssets
    \/ SkipCopy
    \/ Finish

Spec == Init /\ [][Next]_vars

\* ------------------------------------------------------------- properties
Invoked(fn) == \E i \in 1..Len(calls) : calls[i].fn = fn
Fns == [i \in 1..Len(calls) |-> calls[i].fn]
StageOrder == <<"export_to_onnx", "convert_to_tflite", "validate_tflite", "copy_to_android_assets">>
Exited == pc = "exited"
ExitedNonZero == Exited /\ exit_status # <<0>>
Launched == proc.cmd # <<>> /\ ~proc.raised
Surfaced(text) == \E i \in 1..Len(stdout) : stdout[i] = Msg("stderr", text)

TypeOK ==
    /\ pc \in {"check_weights", "export", "convert", "validate", "install", "finish", "exited"}
    /\ args.android_project \in ProjectArgs
    /\ fs \in [FsPaths -> Nodes]
    /\ exit_status \in {<<>>, <<0>>, <<1>>}
    /\ Exited <=> exit_status # <<>>

\* C1: when the --weights path does not exist, the process exits non-zero
\* and no stage function (export, convert, validate, copy) is ever invoked.
C1_MissingWeightsExitsBeforeAnyCall ==
    (~Exists(fs0, args.weights) /\ pc # "check_weights")
        => (ExitedNonZero /\ calls = <<>> /\ proc = NoProc /\ fs = fs0)

C1_Witness == ~Exists(fs0, args.weights) /\ Exited

\* C2: when the conversion subprocess exits non-zero, the process exits
\* non-zero and neither validate_tflite nor copy_to_android_assets is
\* invoked, whether or not a file is at the output path.
C2_NonZeroToolStopsPipeline ==
    (Launched /\ proc.returncode # 0)
        => /\ ExitedNonZero
           /\ results.convert = "false"
           /\ ~Invoked("validate_tflite")
           /\ ~Invoked("copy_to_android_assets")

C2_Witness == Launched /\ proc.returncode # 0 /\ Exists(fs, args.output) /\ Exited

\* C3: when the conversion subprocess exits zero without writing the output
\* file in this run, the process exits non-zero, also when a file was at the
\* output path before the run.
C3_ZeroExitNoFileWrittenFails ==
    (Exited /\ Launched /\ proc.returncode = 0 /\ ~proc.wrote) => exit_status # <<0>>

\* C4: when validation succeeded and --android-project was given with any
\* value, the empty string included, copy_to_android_assets is invoked and,
\* unless the copy fails, the target path holds a copy of the output file at exit.
C4_GivenProjectGetsCopy ==
    (Exited /\ results.validate = "true" /\ args.android_project # None)
        => /\ Invoked("copy_to_android_assets")
           /\ results.copy = "true" => fs[TargetPath(args.android_project)] = fs[args.output]

\* C5: the exit status is 0 exactly when the weights file exists, the export
\* returned, and conversion and validation returned True; otherwise it is
\* non-zero.  What the installer did is not part of the condition.
C5_ExitStatusFromMandatoryStages ==
    Exited =>
        /\ exit_status \in {<<0>>, <<1>>}
        /\ exit_status = <<0>> <=>
              /\ Exists(fs0, args.weights)
              /\ results.export = "returned"
              /\ results.convert = "true"
              /\ results.validate = "true"

C5_Witness == Exited /\ exit_status = <<0>> /\ results.copy = "false"

\* C6: when validation succeeded and no project path was given, the copy is
\* never invoked, nothing under a project tree changes, and the exit status is 0.
C6_NoProjectNoCopy ==
    (results.validate = "true" /\ args.android_project = None)
        => /\ ~Invoked("copy_to_android_assets")
           /\ results.copy = "none"
           /\ \A path \in TreePaths : fs[path] = fs0[path]
           /\ Exited => exit_status = <<0>>

C6_Witness == results.validate = "true" /\ args.android_project = None /\ Exited

\* C7 as stated: whenever convert_to_tflite returns False after the
\* subprocess ran, for a non-zero exit and for a zero exit with the output
\* file missing alike, the captured stderr is written out.
C7_StderrOnEveryFailure ==
    (Launched /\ results.convert = "false") => Surfaced(proc.stderr)

\* C7 amended: the captured stderr is written out when convert_to_tflite fails
\* on a non-zero exit; on a zero exit with the output file missing only the
\* fixed "file not created" line is written, and no stderr.
C7_StderrOnNonZeroExitOnly ==
    (Launched /\ results.convert = "false")
        => IF proc.returncode # 0
           THEN Surfaced(proc.stderr)
           ELSE /\ ~Exists(fs, args.output)
                /\ \A t \in StderrTexts : ~Surfaced(t)
                /\ stdout[Len(stdout)] = Msg("tflite_file_not_created", "")

C7_Witness == Launched /\ results.convert = "false" /\ proc.returncode # 0 /\ Surfaced(proc.stderr)

\* C8: the stages are invoked in the order exporter, converter, validator,
\* installer, each at most once, each only after the stage before it
\* succeeded, and none after the first hard failure.
C8_StagesInOrderOnceEach ==
    /\ Len(calls) <= Len(StageOrder)
    /\ Fns = SubSeq(StageOrder, 1, Len(calls))
    /\ Invoked("convert_to_tflite") => results.export = "returned"
    /\ Invoked("validate_tflite") => results.convert = "true"
    /\ Invoked("copy_to_android_assets") => results.validate = "true"
    /\ results.export = "raised" => (Len(calls) = 1 /\ Exited)
    /\ results.convert = "false" => (Len(calls) = 2 /\ Exited)
    /\ results.validate = "false" => (Len(calls) = 3 /\ Exited)

C8_Witness == Len(calls) = 4 /\ Exited

\* C9: once export_to_onnx has returned, convert_to_tflite is invoked with
\* the returned path as its input, whether or not a file is at that path.
C9_ConverterGetsExporterPath ==
    results.export = "returned" =>
        /\ onnx_path \in OnnxPaths
        /\ pc # "convert" =>
              /\ Invoked("convert_to_tflite")
              /\ calls[2].a = onnx_path
              /\ proc.raised \/ (proc.cmd[9] = onnx_path /\ proc.cmd[8] = <<"--input">>)

C9_Witness ==
    /\ Invoked("convert_to_tflite")
    /\ ~Exists(fs, onnx_path)
    /\ onnx_path = <<"runs", "best.onnx">>
    /\ proc.cmd[9] = onnx_path

\* C10: when launching the conversion subprocess raises, convert_to_tflite
\* returns False: the process exits non-zero and neither validation nor the
\* copy is attempted, also when a file is already at the output path.
C10_LaunchErrorIsFailure ==
    proc.raised
        => /\ results.convert = "false"
           /\ ExitedNonZero
           /\ ~Invoked("validate_tflite")
           /\ ~Invoked("copy_to_android_assets")

C10_Witness == proc.raised /\ Exists(fs, args.output) /\ Exited

====
